---- MODULE Spec2Model ----
(***************************************************************************)
(* deque-loader: the request / reply channels (request.rs), the dedup      *)
(* cache LoadCache (request.rs) and the task state machine                 *)
(* PendingAssignment -> LoadBatch / NoAssignment -> CompletionReceipt      *)
(* (task.rs), driven by a handler shaped like DieselDataLoader::handle_task*)
(* (diesel/loader.rs).                                                     *)
(*                                                                         *)
(* A request is named by the caller that created it.  Callers are the      *)
(* producers; tasks 1..MaxWorkers are the worker loops' root tasks, the    *)
(* remaining task slots are the tasks get_assignment spawns.               *)
(***************************************************************************)
EXTENDS Integers, Sequences, FiniteSets, TLC

\* ---- bounds ----
NCallers == 2    \* callers of the concurrent specification
MaxWorkers == 2  \* worker loops
MaxM == 2        \* MAX_BATCH_SIZE ranges over None, Some(1) .. Some(MaxM)
MaxBurst == 5    \* callers of the burst specification

\* ---- domains ----
Keys == {"a", "b"}
Vals == {1, 2}
\* the value the backend holds for a key, when it holds one
Stored == [k \in Keys |-> IF k = "a" THEN 1 ELSE 2]
Errs == {"E1"}

VARIABLES
  MAX_BATCH_SIZE, \* TaskHandler::MAX_BATCH_SIZE : Option<usize>, <<>> or <<m>>
  pc,             \* per caller: position in get_or_create / load / recv
  ckey,           \* per caller: the key it asked for
  rx,             \* per caller: the request whose reply channel its receiver reads (0: none)
  ret,            \* per caller: the Option<Request> get_or_create returned
  out,            \* per caller: what recv() returned, <<>> until then
  reqs,           \* created requests: id -> [kind, key]
  data,           \* LoadCache.data: key -> request whose watch::Receiver is stored (0: absent)
  queue,          \* the shared pending queue
  tasks,          \* per task slot: [st, requests]
  jobs,           \* the fan-outs handed to rayon::spawn and not finished: [of, todo, results]
  cell,           \* per request: the reply channel's value (LoadState / oneshot slot)
  sends,          \* per request: number of values delivered on its channel
  resolved,       \* per request: number of times Request::resolve consumed it
  locals          \* per task slot: handle_task's locals [conn, keys]

vars == <<MAX_BATCH_SIZE, pc, ckey, rx, ret, out, reqs, data, queue, tasks, jobs,
          cell, sends, resolved, locals>>

callerVars == <<pc, ckey, rx, ret, out>>

Callers == DOMAIN pc
Slots == DOMAIN tasks
Workers == 1..MaxWorkers

\* ---- Option, Result, LoadState ----
None == <<>>
Some(x) == <<x>>
Ok(o) == [ok |-> TRUE, value |-> o, error |-> <<>>]
Err(e) == [ok |-> FALSE, value |-> <<>>, error |-> <<e>>]
Pending == [ready |-> FALSE, result |-> <<>>]
Ready(res) == [ready |-> TRUE, result |-> <<res>>]

Terminal == {Ok(None)} \cup {Ok(Some(v)) : v \in Vals} \cup {Err(e) : e \in Errs}

\* Result<HashMap<K, Arc<V>>, E>; a map is a function Keys -> Option<V>
OkMap(m) == [ok |-> TRUE, values |-> m, error |-> <<>>]
ErrMap(e) == [ok |-> FALSE, values |-> [k \in Keys |-> None], error |-> <<e>>]
Maps == {m \in [Keys -> {None} \cup {Some(v) : v \in Vals}] :
           \A k \in Keys : m[k] \in {None, Some(Stored[k])}}

Range(s) == {s[i] : i \in 1..Len(s)}

key(r) == reqs[r].key

\* ---- task records ----
FreeTask == [st |-> "free", requests |-> <<>>]

\* Task(PendingAssignment { requests, .. })
PendingAssignment(requests) == [st |-> "pending", requests |-> requests]

\* Task::from_requests: Task(LoadBatch { requests })
from_requests(requests) == [st |-> "batch", requests |-> requests]

\* Task::completion_receipt
completion_receipt == [st |-> "receipt", requests |-> <<>>]

\* handle_task's locals before it has run: no connection asked for, no keys
NoLocals == [conn |-> "none", keys |-> <<>>]

\* ---- initial state ----
Configs == {None} \cup {Some(m) : m \in 1..MaxM}

InitWith(n, cfgs) ==
  /\ MAX_BATCH_SIZE \in cfgs
  /\ pc = [c \in 1..n |-> "idle"]
  /\ ckey = [c \in 1..n |-> "a"]
  /\ rx = [c \in 1..n |-> 0]
  /\ ret = [c \in 1..n |-> None]
  /\ out = [c \in 1..n |-> None]
  /\ reqs = <<>>
  /\ data = [k \in Keys |-> 0]
  /\ queue = <<>>
  /\ tasks = [t \in 1..(MaxWorkers + n) |->
                IF t <= MaxWorkers THEN PendingAssignment(<<>>) ELSE FreeTask]
  /\ jobs = {}
  /\ cell = [r \in 1..n |-> Pending]
  /\ sends = [r \in 1..n |-> 0]
  /\ resolved = [r \in 1..n |-> 0]
  /\ locals = [t \in 1..(MaxWorkers + n) |-> NoLocals]

Init == InitWith(NCallers, Configs)

\* ---- producers ----

\* (mutation: insert instead of try_insert, an occupied key is overwritten)
TryInsertWins_overwrite(k) == data[k] = 0 \/ data[k] # 0

\* flurry HashMap::try_insert succeeds iff the key is absent
TryInsertWins(k) == data[k] = 0

\* callers are numbered in their order of arrival
\* (keys being interchangeable, the first one asks for "a")
Arrives(c, k) ==
  /\ pc[c] = "idle"
  /\ IF c = 1 THEN k = "a" ELSE pc[c - 1] # "idle"

\* (mutation: an entry whose load has completed counts as absent)
data_get_skips_ready(k) == IF data[k] # 0 /\ cell[data[k]].ready THEN 0 ELSE data[k]

\* self.data.get(key, &guard): the request whose receiver is stored for k, 0 if none
data_get(k) == data[k]

\* LoadCache::get_or_create, the lookup at the head of the loop: a hit returns
\* a clone of the stored receiver and None; a miss builds a new watch request
get_or_create_get(c, k) ==
  /\ \/ Arrives(c, k)
     \/ pc[c] = "loop" /\ k = ckey[c]
  /\ ckey' = [ckey EXCEPT ![c] = k]
  /\ IF data_get(k) # 0
       THEN /\ rx' = [rx EXCEPT ![c] = data_get(k)]
            /\ pc' = [pc EXCEPT ![c] = "waiting"]
       ELSE /\ pc' = [pc EXCEPT ![c] = "built"]
            /\ UNCHANGED rx
  /\ UNCHANGED <<ret, out, MAX_BATCH_SIZE, reqs, data, queue, tasks, jobs, cell, sends, resolved, locals>>

\* LoadCache::get_or_create, try_insert of the freshly built receiver: the
\* winner returns Some(req), the loser discards what it built and loops
get_or_create_try_insert(c) ==
  /\ pc[c] = "built"
  /\ IF TryInsertWins(ckey[c])
       THEN /\ data' = [data EXCEPT ![ckey[c]] = c]
            /\ reqs' = (c :> [kind |-> "Watch", key |-> ckey[c]]) @@ reqs
            /\ rx' = [rx EXCEPT ![c] = c]
            /\ ret' = [ret EXCEPT ![c] = Some(c)]
            /\ pc' = [pc EXCEPT ![c] = "got"]
       ELSE /\ pc' = [pc EXCEPT ![c] = "loop"]
            /\ UNCHANGED <<data, reqs, rx, ret>>
  /\ UNCHANGED <<ckey, out, MAX_BATCH_SIZE, queue, tasks, jobs, cell, sends, resolved, locals>>

\* the caller that got Some(req) pushes it on the shared queue
push(c) ==
  /\ pc[c] = "got"
  /\ queue' = Append(queue, ret[c][1])
  /\ pc' = [pc EXCEPT ![c] = "waiting"]
  /\ UNCHANGED <<ckey, rx, ret, out, MAX_BATCH_SIZE, reqs, data, tasks, jobs, cell, sends, resolved, locals>>

\* Request::new_oneshot followed by the push on the shared queue
load_oneshot(c, k) ==
  /\ Arrives(c, k)
  /\ ckey' = [ckey EXCEPT ![c] = k]
  /\ reqs' = (c :> [kind |-> "Oneshot", key |-> k]) @@ reqs
  /\ rx' = [rx EXCEPT ![c] = c]
  /\ queue' = Append(queue, c)
  /\ pc' = [pc EXCEPT ![c] = "waiting"]
  /\ UNCHANGED <<ret, out, MAX_BATCH_SIZE, data, tasks, jobs, cell, sends, resolved, locals>>

\* the Request, and the sender in it, is dropped once resolve has consumed it
SenderDropped(r) == resolved[r] > 0

\* WatchReceiver::recv / OneshotReceiver::recv: return the value once it is
\* there; changed().await.unwrap() and rx.await.unwrap() panic when the
\* sender was dropped without a value; otherwise the receiver stays suspended
recv(c) ==
  /\ pc[c] = "waiting"
  /\ IF cell[rx[c]].ready
       THEN /\ out' = [out EXCEPT ![c] = Some(cell[rx[c]].result[1])]
            /\ pc' = [pc EXCEPT ![c] = "done"]
       ELSE /\ SenderDropped(rx[c])
            /\ pc' = [pc EXCEPT ![c] = "panicked"]
            /\ UNCHANGED out
  /\ UNCHANGED <<ckey, rx, ret, MAX_BATCH_SIZE, reqs, data, queue, tasks, jobs, cell, sends, resolved, locals>>

\* a waiter abandons its receiver without reading it
drop_receiver(c) ==
  /\ pc[c] = "waiting"
  /\ pc' = [pc EXCEPT ![c] = "dropped"]
  /\ UNCHANGED <<ckey, rx, ret, out, MAX_BATCH_SIZE, reqs, data, queue, tasks, jobs, cell, sends, resolved, locals>>

\* ---- reply channels ----

\* the callers' receivers of request r's channel that are still alive: a
\* caller keeps its receiver until recv, which consumes it, returns
Receivers(r) ==
  {c \in Callers : rx[c] = r /\ pc[c] \in {"got", "waiting"}}

\* (mutation: the channel counts as closed as soon as one receiver is dropped)
is_closed_on_first_drop(r) == \E c \in Callers : rx[c] = r /\ pc[c] = "dropped"

\* tx.is_closed(): every receiver of the channel has been dropped; the dedup
\* cache keeps the receiver it stored
is_closed(r) ==
  /\ Receivers(r) = {}
  /\ \A k \in Keys : data[k] # r

\* Request::resolve applied to every request of S with its value V[r]: the
\* value is sent unless the channel is closed; the request is consumed
Request_resolve(S, V) ==
  /\ cell' = [r \in DOMAIN cell |->
                IF r \in S /\ ~is_closed(r) THEN Ready(V[r]) ELSE cell[r]]
  /\ sends' = [r \in DOMAIN sends |->
                IF r \in S /\ ~is_closed(r) THEN sends[r] + 1 ELSE sends[r]]
  /\ resolved' = [r \in DOMAIN resolved |->
                IF r \in S THEN resolved[r] + 1 ELSE resolved[r]]

\* ---- task state machine ----

Min(a, b) == IF a < b THEN a ELSE b

\* QueueHandle::collect_queue: drain everything queued into the local buffer
collect_queue(requests, q) == requests \o q

\* RequestBuckets: ordered buckets of at most m requests
RequestBuckets(m, s) ==
  [i \in 1..((Len(s) + m - 1) \div m) |-> SubSeq(s, (i - 1) * m + 1, Min(i * m, Len(s)))]

\* (mutation: the first match is missing, the queue is always drained)
LocalIsFull_never(requests) == FALSE

\* get_assignment, first match: the local buffer already fills a batch
LocalIsFull(requests) ==
  /\ MAX_BATCH_SIZE # None
  /\ Len(requests) >= MAX_BATCH_SIZE[1]

\* (mutation: off by one in the comparison with the maximum)
Oversized_off_by_one(requests) ==
  /\ MAX_BATCH_SIZE # None
  /\ Len(requests) > MAX_BATCH_SIZE[1] + 1

\* get_assignment, second match: the collected buffer exceeds the maximum
Oversized(requests) ==
  /\ MAX_BATCH_SIZE # None
  /\ Len(requests) > MAX_BATCH_SIZE[1]

\* (mutation: the last bucket is not spawned)
SpawnedBuckets_drop_last(buckets) == SubSeq(buckets, 2, Len(buckets) - 1)

\* (mutation: the first bucket is spawned as well as returned)
SpawnedBuckets_all(buckets) == buckets

\* the buckets left in buckets_iter after next(): one task is spawned for each
SpawnedBuckets(buckets) == Tail(buckets)

\* (mutation: the arm for an empty buffer is missing)
NothingToDo_never(requests) == FALSE

\* (mutation: a single collected request counts as nothing to do)
NothingToDo_le_one(requests) == Len(requests) <= 1

\* get_assignment, the arm `_ if requests.len().eq(&0)`
NothingToDo(requests) == Len(requests) = 0

UsedSlots == Cardinality({s \in Slots \ Workers : tasks[s].st # "free"})

\* Task::new: a worker loop that got its receipt starts the next root task
\* with an empty local buffer
new_task(w) ==
  /\ w \in Workers
  /\ tasks[w].st = "receipt"
  /\ tasks' = [tasks EXCEPT ![w] = PendingAssignment(<<>>)]
  /\ UNCHANGED <<callerVars, MAX_BATCH_SIZE, reqs, data, queue, jobs, cell, sends, resolved, locals>>

\* Task<PendingAssignment>::get_assignment
get_assignment(t) ==
  /\ tasks[t].st = "pending"
  /\ IF LocalIsFull(tasks[t].requests)
       THEN /\ tasks' = [tasks EXCEPT
                  ![t] = from_requests(tasks[t].requests)]
            /\ UNCHANGED queue
       ELSE LET requests == collect_queue(tasks[t].requests, queue)
            IN  /\ queue' = <<>>
                /\ IF Oversized(requests)
                     THEN LET buckets == RequestBuckets(MAX_BATCH_SIZE[1], requests)
                              rest == SpawnedBuckets(buckets)
                              base == MaxWorkers + UsedSlots
                          IN  /\ base + Len(rest) <= Cardinality(Slots)
                              /\ tasks' = [s \in Slots |->
                                   IF s = t
                                     THEN from_requests(Head(buckets))
                                   ELSE IF s \in (base + 1)..(base + Len(rest))
                                     THEN PendingAssignment(rest[s - base])
                                   ELSE tasks[s]]
                     ELSE IF NothingToDo(requests)
                       THEN tasks' = [tasks EXCEPT
                              ![t] = completion_receipt]
                       ELSE tasks' = [tasks EXCEPT
                              ![t] = from_requests(requests)]
  /\ UNCHANGED <<callerVars, MAX_BATCH_SIZE, reqs, data, jobs, cell, sends, resolved, locals>>

\* Task<LoadBatch>::keys: the distinct keys of the batch
keys(requests) == {key(requests[i]) : i \in 1..Len(requests)}

\* (mutation: the keys are collected without going through the HashSet)
keys_collect_no_dedup(requests) == {[i \in 1..Len(requests) |-> key(requests[i])]}

\* Task<LoadBatch>::keys, keys.into_par_iter().collect(): the Vec<K> returned,
\* the HashSet's elements once each, in an order the caller cannot rely on
keys_collect(requests) ==
  {v \in [1..Cardinality(keys(requests)) -> keys(requests)] :
     \A i, j \in DOMAIN v : i # j => v[i] # v[j]}

\* (mutation: the looked-up value is not passed on)
ResolveValue_no_lookup(results, k) ==
  IF results.ok THEN Ok(None) ELSE Err(results.error[1])

\* (mutation: an error is swallowed into Ok(None))
ResolveValue_swallow(results, k) ==
  IF results.ok THEN Ok(results.values[k]) ELSE Ok(None)

\* the value resolve hands to a request with key k: values.get(key).cloned()
\* wrapped in Ok, or a clone of the error
ResolveValue(results, k) ==
  IF results.ok THEN Ok(results.values[k]) ELSE Err(results.error[1])

\* what the handler may pass to resolve: the backend's answer for the keys
\* it was asked for, or an error
HandlerResults(t) ==
  {ErrMap(e) : e \in Errs} \cup
  {OkMap(m) : m \in {mm \in Maps :
     \A k \in Keys : k \notin keys(tasks[t].requests) => mm[k] = None}}

\* (mutation: the fan-out skips the first request)
fan_out_requests_skip(requests) == Range(Tail(requests))

\* the requests moved into the closure resolve spawns: requests.into_par_iter()
fan_out_requests(requests) == Range(requests)

\* Task<LoadBatch>::resolve: the fan-out is handed to rayon::spawn and the
\* receipt is returned at once
resolve(t, results) ==
  /\ tasks[t].st = "batch"
  /\ jobs' = IF fan_out_requests(tasks[t].requests) = {} THEN jobs
              ELSE jobs \cup {[of |-> t,
                                todo |-> fan_out_requests(tasks[t].requests),
                                results |-> results]}
  /\ tasks' = [tasks EXCEPT ![t] = completion_receipt]
  /\ UNCHANGED <<callerVars, MAX_BATCH_SIZE, reqs, data, queue, cell, sends, resolved, locals>>

\* one iteration of the parallel for_each inside the spawned fan-out j
fan_out(j, r) ==
  /\ j \in jobs
  /\ r \in j.todo
  /\ LET value == [q \in {r} |-> ResolveValue(j.results, key(q))]
     IN  Request_resolve({r}, value)
  /\ jobs' = (jobs \ {j}) \cup
              (IF j.todo = {r} THEN {} ELSE {[j EXCEPT !.todo = @ \ {r}]})
  /\ UNCHANGED <<callerVars, MAX_BATCH_SIZE, reqs, data, queue, tasks, locals>>

\* what the handler may pass to apply_partial_results: values it already
\* holds for some of the keys of its batch
PartialResults(t) ==
  {m \in Maps : /\ \E k \in Keys : m[k] # None
                /\ \A k \in Keys : k \notin keys(tasks[t].requests) => m[k] = None}

\* the requests apply_partial_results resolves: those whose key is in results
PartialHit(results, r) == results[key(r)] # None

\* (mutation: the resolved requests are carried over as well)
filter_map_keep_all(requests, results) == requests

\* the requests filter_map keeps, in their order: those with no value in results
filter_map(requests, results) ==
  SelectSeq(requests, LAMBDA r : ~PartialHit(results, r))

\* Task<LoadBatch>::apply_partial_results
apply_partial_results(t, results) ==
  /\ tasks[t].st = "batch"
  /\ LET requests == tasks[t].requests
         hit == {r \in Range(requests) : PartialHit(results, r)}
         remaining == filter_map(requests, results)
         value == [r \in hit |-> Ok(Some(results[key(r)][1]))]
     IN  /\ Request_resolve(hit, value)
         /\ IF Len(remaining) > 0
              THEN tasks' = [tasks EXCEPT ![t] = from_requests(remaining)]
              ELSE tasks' = [tasks EXCEPT ![t] = completion_receipt]
  /\ UNCHANGED <<callerVars, MAX_BATCH_SIZE, reqs, data, queue, jobs, locals>>

\* ---- specification ----
Next ==
  \/ \E c \in Callers, k \in Keys : get_or_create_get(c, k)
  \/ \E c \in Callers : get_or_create_try_insert(c)
  \/ \E c \in Callers : push(c)
  \/ \E c \in Callers, k \in Keys : load_oneshot(c, k)
  \/ \E c \in Callers : recv(c)
  \/ \E w \in Workers : new_task(w)
  \/ \E t \in Slots : get_assignment(t)
  \/ \E t \in Slots : \E results \in HandlerResults(t) : resolve(t, results)
  \/ \E j \in jobs : \E r \in j.todo : fan_out(j, r)
  \/ \E t \in Slots : \E results \in PartialResults(t) : apply_partial_results(t, results)

Spec == Init /\ [][Next]_vars

\* workers keep taking tasks, handlers resolve the batch they are given, the
\* rayon pool runs the fan-out it was handed, waiters keep awaiting
Fairness(nCallers) ==
  /\ \A c \in 1..nCallers : WF_vars(recv(c))
  /\ \A w \in Workers : WF_vars(new_task(w))
  /\ \A t \in 1..(MaxWorkers + nCallers) :
       /\ WF_vars(get_assignment(t))
       /\ WF_vars(\E results \in HandlerResults(t) : resolve(t, results))
  /\ WF_vars(\E j \in jobs : \E r \in j.todo : fan_out(j, r))

FairSpec == Spec /\ Fairness(NCallers)

\* ---- bursts: some callers have already pushed a oneshot request, the
\* others push theirs later; replies are not read ----
KeyOf(c) == IF c % 2 = 1 THEN "a" ELSE "b"

\* the backend finds every key of the batch
Found(t) ==
  OkMap([k \in Keys |-> IF k \in keys(tasks[t].requests) THEN Some(Stored[k]) ELSE None])

BurstInit ==
  \E n \in 0..MaxBurst :
    /\ MAX_BATCH_SIZE \in Configs
    /\ pc = [c \in 1..MaxBurst |-> IF c <= n THEN "waiting" ELSE "idle"]
    /\ ckey = [c \in 1..MaxBurst |-> IF c <= n THEN KeyOf(c) ELSE "a"]
    /\ rx = [c \in 1..MaxBurst |-> IF c <= n THEN c ELSE 0]
    /\ ret = [c \in 1..MaxBurst |-> None]
    /\ out = [c \in 1..MaxBurst |-> None]
    /\ reqs = [c \in 1..n |-> [kind |-> "Oneshot", key |-> KeyOf(c)]]
    /\ data = [k \in Keys |-> 0]
    /\ queue = [i \in 1..n |-> i]
    /\ tasks = [t \in 1..(MaxWorkers + MaxBurst) |->
                  IF t <= MaxWorkers THEN PendingAssignment(<<>>) ELSE FreeTask]
    /\ jobs = {}
    /\ cell = [r \in 1..MaxBurst |-> Pending]
    /\ sends = [r \in 1..MaxBurst |-> 0]
    /\ resolved = [r \in 1..MaxBurst |-> 0]
    /\ locals = [t \in 1..(MaxWorkers + MaxBurst) |-> NoLocals]

BurstNext ==
  \/ \E t \in Slots : \E results \in PartialResults(t) : apply_partial_results(t, results)
  \/ \E c \in Callers : load_oneshot(c, KeyOf(c))
  \/ \E w \in Workers : new_task(w)
  \/ \E t \in Slots : get_assignment(t)
  \/ \E t \in Slots : resolve(t, Found(t))
  \/ \E j \in jobs : \E r \in j.todo : fan_out(j, r)

BurstSpec == BurstInit /\ [][BurstNext]_vars

FairBurstSpec ==
  /\ BurstSpec
  /\ \A w \in Workers : WF_vars(new_task(w))
  /\ \A t \in 1..(MaxWorkers + MaxBurst) :
       /\ WF_vars(get_assignment(t))
       /\ WF_vars(resolve(t, Found(t)))
  /\ WF_vars(\E j \in jobs : \E r \in j.todo : fan_out(j, r))

\* ---- DieselDataLoader::handle_task, run by the workers on a burst of
\* oneshot requests already queued; a DieselLoader leaves MAX_BATCH_SIZE unset ----

\* let conn = diesel_connection::get_connection(): Ok(conn) or Err(err)
get_connection(t) ==
  /\ tasks[t].st = "pending"
  /\ locals[t].conn = "none"
  /\ \E conn \in {"Ok", "Err"} : locals' = [locals EXCEPT ![t].conn = conn]
  /\ UNCHANGED <<callerVars, MAX_BATCH_SIZE, reqs, data, queue, tasks, jobs, cell, sends, resolved>>

\* match task.get_assignment()
handle_task_get_assignment(t) ==
  /\ locals[t].conn # "none"
  /\ get_assignment(t)

\* let keys = task.keys()
handle_task_keys(t) ==
  /\ tasks[t].st = "batch"
  /\ locals[t].conn = "Ok"
  /\ locals[t].keys = None
  /\ \E v \in keys_collect(tasks[t].requests) :
       locals' = [locals EXCEPT ![t].keys = Some(v)]
  /\ UNCHANGED <<callerVars, MAX_BATCH_SIZE, reqs, data, queue, tasks, jobs, cell, sends, resolved>>

\* T::load(conn, keys).map_err(..): what the backend holds for some of the
\* keys it was asked for, or an error
load(v) ==
  {ErrMap(e) : e \in Errs} \cup
  {OkMap(m) : m \in {mm \in Maps : \A k \in Keys : k \notin Range(v) => mm[k] = None}}

\* task.resolve(result) / task.resolve(Err(err.into()))
handle_task_resolve(t) ==
  \/ /\ locals[t].conn = "Ok"
     /\ locals[t].keys # None
     /\ \E result \in load(locals[t].keys[1]) : resolve(t, result)
  \/ /\ locals[t].conn = "Err"
     /\ \E err \in Errs : resolve(t, ErrMap(err))

\* the closure returns the receipt and its locals are dropped
handle_task_return(t) ==
  /\ tasks[t].st = "receipt"
  /\ locals[t].conn # "none"
  /\ locals' = [locals EXCEPT ![t] = NoLocals]
  /\ UNCHANGED <<callerVars, MAX_BATCH_SIZE, reqs, data, queue, tasks, jobs, cell, sends, resolved>>

DieselInit == BurstInit /\ MAX_BATCH_SIZE = None

DieselNext ==
  \/ \E t \in Slots : get_connection(t)
  \/ \E t \in Slots : handle_task_get_assignment(t)
  \/ \E t \in Slots : handle_task_keys(t)
  \/ \E t \in Slots : handle_task_resolve(t)
  \/ \E j \in jobs : \E r \in j.todo : fan_out(j, r)
  \/ \E t \in Slots : handle_task_return(t)
  \/ \E w \in Workers : locals[w].conn = "none" /\ new_task(w)

DieselSpec == DieselInit /\ [][DieselNext]_vars

\* ---- every value of Option<usize>: MAX_BATCH_SIZE may also be Some(0) ----
AnyConfigs == Configs \cup {Some(0)}

AnyConfigSpec == InitWith(NCallers, AnyConfigs) /\ [][Next]_vars

\* ---- cancellation: waiters may drop their receivers at any time ----
CancelNext ==
  \/ Next
  \/ \E c \in Callers : drop_receiver(c)

CancelSpec == Init /\ [][CancelNext]_vars

\* ---- joining a completed load: the load of key "a", started by caller 1
\* through the cache, has been resolved; the other callers arrive afterwards ----
JoinInit ==
  \E res \in {Ok(None), Ok(Some(Stored["a"]))} \cup {Err(e) : e \in Errs} :
    /\ MAX_BATCH_SIZE \in Configs
    /\ pc = [c \in 1..NCallers |-> IF c = 1 THEN "waiting" ELSE "idle"]
    /\ ckey = [c \in 1..NCallers |-> "a"]
    /\ rx = [c \in 1..NCallers |-> IF c = 1 THEN 1 ELSE 0]
    /\ ret = [c \in 1..NCallers |-> IF c = 1 THEN Some(1) ELSE None]
    /\ out = [c \in 1..NCallers |-> None]
    /\ reqs = (1 :> [kind |-> "Watch", key |-> "a"])
    /\ data = [k \in Keys |-> IF k = "a" THEN 1 ELSE 0]
    /\ queue = <<>>
    /\ tasks = [t \in 1..(MaxWorkers + NCallers) |->
                  IF t = 1 THEN completion_receipt
                  ELSE IF t <= MaxWorkers THEN PendingAssignment(<<>>) ELSE FreeTask]
    /\ jobs = {}
    /\ cell = [r \in 1..NCallers |-> IF r = 1 THEN Ready(res) ELSE Pending]
    /\ sends = [r \in 1..NCallers |-> IF r = 1 THEN 1 ELSE 0]
    /\ resolved = [r \in 1..NCallers |-> IF r = 1 THEN 1 ELSE 0]
    /\ locals = [t \in 1..(MaxWorkers + NCallers) |-> NoLocals]

JoinSpec == JoinInit /\ [][Next]_vars

\* ---- claims ----

\* C1: get_or_create calls for one key produce exactly one Request between
\* them: as soon as any of them has returned, exactly one has returned
\* Some(request) and every returned receiver reads that request's reply cell,
\* so those that have received hold the same terminal value; there is at
\* most one watch request per key.
C1_SingleFlight ==
  \A k \in Keys :
    LET returned == {c \in Callers :
                       /\ pc[c] \in {"got", "waiting", "done"}
                       /\ ckey[c] = k
                       /\ ~(c \in DOMAIN reqs /\ reqs[c].kind = "Oneshot")}
    IN  /\ Cardinality({r \in DOMAIN reqs : reqs[r].kind = "Watch" /\ reqs[r].key = k}) <= 1
        /\ returned # {} =>
             /\ Cardinality({c \in returned : ret[c] # None}) = 1
             /\ \A c \in returned :
                  /\ rx[c] = data[k]
                  /\ ret[c] # None => ret[c] = Some(rx[c])
                  /\ pc[c] = "done" =>
                       cell[rx[c]].ready /\ out[c] = Some(cell[rx[c]].result[1])
             /\ \A c, d \in returned :
                  pc[c] = "done" /\ pc[d] = "done" => out[c] = out[d]

\* two callers of get_or_create for the same key, one with Some(request) and
\* one with None, have both received
C1_Witness ==
  \E c, d \in Callers :
    /\ c # d /\ ckey[c] = ckey[d]
    /\ ret[c] # None /\ ret[d] = None /\ rx[d] = c
    /\ pc[c] = "done" /\ pc[d] = "done"

\* C2: every request pushed on the shared queue is in exactly one place (the
\* queue, one task's local buffer or batch, one fan-out, or resolved), a
\* request not pushed is nowhere, and a reply channel gets at most one value.
C2_ExactlyOnePlace ==
  \A r \in Callers :
    LET inQueue == Cardinality({i \in DOMAIN queue : queue[i] = r})
        inTasks == Cardinality({p \in UNION {{<<t, i>> : i \in DOMAIN tasks[t].requests} : t \in Slots} :
                                  tasks[p[1]].requests[p[2]] = r})
        inJobs == Cardinality({j \in jobs : r \in j.todo})
        places == inQueue + inTasks + inJobs + resolved[r]
    IN  /\ sends[r] <= 1
        /\ sends[r] <= resolved[r]
        /\ IF r \in DOMAIN reqs /\ pc[r] # "got" THEN places = 1 ELSE places = 0

\* after a split, the first bucket's request has been resolved and its value
\* sent while a spawned task holds the next bucket as its batch
C2_Witness ==
  \E t \in Slots \ Workers :
    /\ tasks[t].st = "batch"
    /\ \E r \in Callers : resolved[r] = 1 /\ sends[r] = 1

\* C3: with MAX_BATCH_SIZE = Some(m) every LoadBatch, whichever task holds it
\* and whether get_assignment or apply_partial_results produced it, has at
\* most m requests.
C3_BatchBounded ==
  MAX_BATCH_SIZE # None =>
    \A t \in Slots : tasks[t].st = "batch" => Len(tasks[t].requests) <= MAX_BATCH_SIZE[1]

\* a spawned task holds a full batch while the queue holds more requests
C3_Witness ==
  /\ MAX_BATCH_SIZE # None
  /\ Len(queue) > 0
  /\ \E t \in Slots \ Workers :
       tasks[t].st = "batch" /\ Len(tasks[t].requests) = MAX_BATCH_SIZE[1]

\* C4: when get_assignment has collected n > m requests it returns the first
\* m as its LoadBatch, empties the queue and spawns one task per remaining
\* bucket, each bucket of 1..m requests, the buckets partitioning the n
\* requests; every request is then resolved, exactly once.
C4_SplitPartition ==
  /\ [][\A t \in 1..(MaxWorkers + MaxBurst) :
          (/\ tasks[t].st = "pending" /\ tasks'[t].st = "batch"
           /\ MAX_BATCH_SIZE # None
           /\ ~LocalIsFull(tasks[t].requests)
           /\ Len(tasks[t].requests) + Len(queue) > MAX_BATCH_SIZE[1])
          => LET m == MAX_BATCH_SIZE[1]
                 all == tasks[t].requests \o queue
                 n == Len(all)
                 new == {s \in Slots : tasks[s].st = "free" /\ tasks'[s].st = "pending"}
             IN  /\ tasks'[t].requests = SubSeq(all, 1, m)
                 /\ queue' = <<>>
                 /\ Cardinality(new) = ((n + m - 1) \div m) - 1
                 /\ \A s \in new : Len(tasks'[s].requests) \in 1..m
                 /\ \A r \in Range(all) :
                      Cardinality({p \in UNION {{<<s, i>> : i \in DOMAIN tasks'[s].requests} :
                                                  s \in new \cup {t}} :
                                     tasks'[p[1]].requests[p[2]] = r}) = 1
                 /\ \A s \in new : Range(tasks'[s].requests) \subseteq Range(all)
       ]_vars
  /\ [](\A r \in 1..MaxBurst : resolved[r] <= 1)
  /\ []<>(\A r \in DOMAIN reqs : resolved[r] = 1)

\* MAX_BATCH_SIZE = 2 and 5 collected requests: a batch of 2 and spawned
\* tasks for the buckets of 2 and 1
C4_Witness ==
  /\ MAX_BATCH_SIZE = Some(2)
  /\ \E t \in Workers : tasks[t] = from_requests(<<1, 2>>)
  /\ tasks[MaxWorkers + 1] = PendingAssignment(<<3, 4>>)
  /\ tasks[MaxWorkers + 2] = PendingAssignment(<<5>>)

C6_FanOutOk ==
  [][\A j \in jobs : \A r \in j.todo :
       (j.results.ok /\ j \notin jobs' /\ resolved'[r] = resolved[r] + 1)
       => LET map == j.results.values
              present == {k \in Keys : map[k] # None}
          IN  /\ sends'[r] = sends[r] + 1
              /\ IF reqs[r].key \in present
                   THEN cell'[r] = Ready(Ok(Some(map[reqs[r].key][1])))
                   ELSE cell'[r] = Ready(Ok(None))
    ]_vars

\* a batch with keys a and b resolved with {a: 1}: a's request got
\* Ok(Some(1)), b's request is about to get Ok(None)
C6_Witness ==
  \E j \in jobs : \E r, q \in DOMAIN reqs :
    /\ j.results.ok
    /\ j.results.values["a"] = Some(1)
    /\ j.results.values["b"] = None
    /\ reqs[r].key = "a" /\ cell[r] = Ready(Ok(Some(1)))
    /\ reqs[q].key = "b" /\ j.todo = {q}

\* C7: in the fan-out of resolve(Err(e)) every request of the batch receives
\* Err(e), and neither resolve nor its fan-out touches a request outside the
\* batch: the queue, the tasks, the other fan-outs and every other reply stay
\* as they are.
C7_ErrorIsLocal ==
  [][/\ \A j \in jobs : \A r \in j.todo :
          (~j.results.ok /\ j \notin jobs' /\ resolved'[r] = resolved[r] + 1)
          => /\ cell'[r] = Ready(Err(j.results.error[1]))
             /\ \A q \in Callers \ {r} :
                  cell'[q] = cell[q] /\ sends'[q] = sends[q] /\ resolved'[q] = resolved[q]
             /\ queue' = queue /\ tasks' = tasks
             /\ jobs \ {j} \subseteq jobs'
             /\ \A i \in jobs' \ jobs : i.of = j.of /\ i.results = j.results /\ i.todo = j.todo \ {r}
     /\ \A t \in Slots : \A j \in jobs' \ jobs :
          (/\ tasks[t].st = "batch" /\ tasks'[t].st = "receipt"
           /\ resolved' = resolved /\ ~j.results.ok)
          => /\ j.of = t /\ j.todo = Range(tasks[t].requests)
             /\ jobs' = jobs \cup {j}
             /\ cell' = cell /\ sends' = sends /\ queue' = queue
             /\ \A s \in Slots \ {t} : tasks'[s] = tasks[s]
    ]_vars

\* one request got the error of its batch while another request, in another
\* task's batch, is still unresolved
C7_Witness ==
  \E r, q \in DOMAIN reqs : \E t \in Slots :
    /\ cell[r] = Ready(Err("E1"))
    /\ tasks[t].st = "batch" /\ q \in Range(tasks[t].requests)
    /\ cell[q] = Pending /\ resolved[q] = 0

\* C8: a get_or_create for a key whose load was resolved with an error
\* returns Some(request) and a receiver whose state is Pending.
C8_FreshLoadAfterError ==
  [][\A c \in Callers :
       (/\ pc[c] \in {"idle", "loop", "built"}
        /\ pc'[c] \in {"got", "waiting"}
        /\ rx'[c] # 0
        /\ data[ckey'[c]] # 0
        /\ cell[data[ckey'[c]]].ready
        /\ ~cell[data[ckey'[c]]].result[1].ok)
       => ret'[c] # None /\ cell'[rx'[c]] = Pending
    ]_vars

C10_WatchMonotonic ==
  [][/\ \A r \in DOMAIN reqs :
          (reqs[r].kind = "Watch" /\ cell[r].ready) => cell'[r] = cell[r]
     /\ \A c \in Callers :
          (out'[c] # None /\ rx'[c] \in DOMAIN reqs' /\ reqs'[rx'[c]].kind = "Watch")
          => cell'[rx'[c]] = Ready(out'[c][1])
    ]_vars

\* a watch cell is Ready and a receiver cloned from the cache has read it
\* while the winner's own receiver has not read yet
C10_Witness ==
  \E r \in DOMAIN reqs : \E c \in Callers :
    /\ reqs[r].kind = "Watch" /\ cell[r].ready
    /\ c # r /\ rx[c] = r /\ pc[c] = "done" /\ out[c] = Some(cell[r].result[1])
    /\ pc[r] = "waiting"

\* C11: a get_or_create for a key whose load has been resolved returns a
\* clone of the stored reader and None, creating and enqueuing nothing; the
\* reader's cell already holds the terminal result, so recv returns it at
\* once; no recv ever fails on a dropped sender.
C11_JoinCompletedLoad ==
  /\ [](\A c \in Callers : pc[c] # "panicked")
  /\ [](\A c \in Callers :
          (pc[c] = "waiting" /\ rx[c] \in DOMAIN reqs /\ resolved[rx[c]] = 1
           /\ reqs[rx[c]].kind = "Watch")
          => cell[rx[c]].ready /\ cell[rx[c]].result[1] \in Terminal)
  /\ [][\A c \in Callers :
          /\ (/\ pc[c] \in {"idle", "loop"} /\ pc'[c] # pc[c]
              /\ c \notin DOMAIN reqs'
              /\ data[ckey'[c]] # 0 /\ resolved[data[ckey'[c]]] = 1)
             => /\ pc'[c] = "waiting" /\ ret'[c] = None
                /\ rx'[c] = data[ckey'[c]]
                /\ reqs' = reqs /\ queue' = queue /\ data' = data /\ cell' = cell
          /\ (pc[c] = "waiting" /\ pc'[c] # "waiting")
             => /\ pc'[c] = "done"
                /\ out'[c] = Some(cell[rx[c]].result[1])
                /\ cell' = cell /\ resolved' = resolved
     ]_vars

\* a caller that arrived after the load of "a" was resolved holds a clone of
\* its reader, was given no request and has received the stored result
C11_Witness ==
  \E c \in Callers \ {1} :
    /\ ckey[c] = "a" /\ rx[c] = 1 /\ ret[c] = None
    /\ pc[c] = "done" /\ out[c] = Some(cell[1].result[1])
    /\ c \notin DOMAIN reqs /\ resolved[1] = 1

\* C12: a waiter dropping its receiver is silent.  Resolving a request whose
\* channel is closed consumes it and sends nothing; resolving any other
\* request delivers its value, whatever happened to the receivers of the
\* other requests of its batch; a watch request is never closed, so every
\* remaining clone reads the terminal value; a batch can always be resolved
\* and resolve yields the receipt; nothing panics.
C12_SilentCancellation ==
  /\ [](/\ \A c \in Callers : pc[c] # "panicked"
        /\ \A r \in DOMAIN reqs :
             /\ reqs[r].kind = "Watch" => ~is_closed(r)
             /\ (reqs[r].kind = "Watch" /\ resolved[r] = 1) => cell[r].ready /\ sends[r] = 1
        /\ \A j \in jobs : \A r \in j.todo : ENABLED fan_out(j, r)
        /\ \A t \in Slots : tasks[t].st = "batch" =>
             \A results \in HandlerResults(t) : ENABLED resolve(t, results))
  /\ [][/\ \A j \in jobs : \A r \in j.todo :
             (j \notin jobs' /\ resolved'[r] = resolved[r] + 1)
             => /\ IF is_closed(r)
                     THEN cell'[r] = cell[r] /\ sends'[r] = sends[r]
                     ELSE /\ cell'[r] = Ready(ResolveValue(j.results, reqs[r].key))
                          /\ sends'[r] = sends[r] + 1
                /\ \A q \in Callers \ {r} : cell'[q] = cell[q] /\ resolved'[q] = resolved[q]
                /\ pc' = pc
        /\ \A t \in Slots :
             (tasks[t].st = "batch" /\ tasks'[t] # tasks[t] /\ resolved' = resolved)
             => tasks'[t] = completion_receipt
        /\ \A c \in Callers :
             (pc[c] = "waiting" /\ pc'[c] = "done")
             => out'[c] = Some(cell[rx[c]].result[1]) /\ out'[c][1] \in Terminal
     ]_vars

\* the winner of a watch key dropped its receiver, its request was resolved
\* all the same, and the caller holding a clone has read the value
C12_Witness ==
  \E r, c \in Callers :
    /\ r \in DOMAIN reqs /\ reqs[r].kind = "Watch"
    /\ pc[r] = "dropped" /\ resolved[r] = 1 /\ sends[r] = 1
    /\ c # r /\ rx[c] = r /\ pc[c] = "done" /\ out[c] = Some(cell[r].result[1])

\* C13: apply_partial_results(partial) resolves exactly the requests of the
\* batch whose key is in partial, each with Ok(Some(partial[key])), leaves the
\* others unresolved and returns a LoadBatch of exactly those others, each
\* once, or NoAssignment when there is none.
C13_PartialResults ==
  [][\A t \in Slots :
       (/\ tasks[t].st = "batch" /\ jobs' = jobs
        /\ \E r \in Range(tasks[t].requests) : resolved'[r] # resolved[r])
       => \E partial \in Maps :
            LET batch == Range(tasks[t].requests)
                hit == {r \in batch : partial[reqs[r].key] # None}
                rest == batch \ hit
            IN  /\ \A r \in hit :
                     /\ resolved'[r] = resolved[r] + 1
                     /\ sends'[r] = sends[r] + 1
                     /\ cell'[r] = Ready(Ok(Some(partial[reqs[r].key][1])))
                /\ \A r \in Callers \ hit :
                     resolved'[r] = resolved[r] /\ sends'[r] = sends[r] /\ cell'[r] = cell[r]
                /\ IF rest # {}
                     THEN /\ tasks'[t].st = "batch"
                          /\ Range(tasks'[t].requests) = rest
                          /\ Len(tasks'[t].requests) = Cardinality(rest)
                     ELSE tasks'[t] = completion_receipt
                /\ \A s \in Slots \ {t} : tasks'[s] = tasks[s]
                /\ queue' = queue
    ]_vars

\* a worker's batch of keys [a, b, a] after apply_partial_results({b: 2}):
\* b's request got Ok(Some(2)), the batch holds the two requests for a
C13_Witness ==
  \E t \in Workers :
    /\ tasks[t] = from_requests(<<1, 3>>)
    /\ resolved[2] = 1 /\ cell[2] = Ready(Ok(Some(2)))
    /\ resolved[1] = 0 /\ resolved[3] = 0

\* C14 as stated: for every MAX_BATCH_SIZE, unset or set, get_assignment with
\* an empty local buffer and an empty queue returns NoAssignment, and it
\* returns a LoadBatch only when at least one request is available.
C14_NoWorkNoAssignment ==
  [][\A t \in Slots :
       (tasks[t].st = "pending" /\ tasks'[t] # tasks[t])
       => /\ (tasks[t].requests = <<>> /\ queue = <<>>)
               => tasks'[t] = completion_receipt /\ queue' = <<>>
          /\ tasks'[t].st = "batch"
               => Len(tasks[t].requests) + Len(queue) >= 1 /\ Len(tasks'[t].requests) >= 1
    ]_vars

\* C14 as amended: the same for MAX_BATCH_SIZE unset or set to a positive
\* value; with Some(0) the local buffer always counts as full and
\* get_assignment returns the LoadBatch of the local requests, empty or not.
C14_NoWorkNoAssignmentPositive ==
  [][\A t \in Slots :
       (tasks[t].st = "pending" /\ tasks'[t] # tasks[t])
       => IF MAX_BATCH_SIZE # Some(0)
            THEN /\ (tasks[t].requests = <<>> /\ queue = <<>>)
                      => tasks'[t] = completion_receipt /\ queue' = <<>>
                 /\ tasks'[t].st = "batch"
                      => Len(tasks[t].requests) + Len(queue) >= 1 /\ Len(tasks'[t].requests) >= 1
            ELSE tasks'[t] = from_requests(tasks[t].requests) /\ queue' = queue
    ]_vars

\* no request was ever created and, under a positive MAX_BATCH_SIZE, every
\* worker holds the receipt of a NoAssignment
C14_Witness ==
  /\ MAX_BATCH_SIZE # None /\ MAX_BATCH_SIZE # Some(0)
  /\ DOMAIN reqs = {}
  /\ \A w \in Workers : tasks[w] = completion_receipt

\* C15: keys() returns the distinct keys of the batch's requests: the key of
\* every request appears exactly once, every key returned is the key of a
\* request of the batch, and the batch is left as it was.
C15_KeysDistinct ==
  [][\A t \in Slots :
       (locals[t].keys = None /\ locals'[t].keys # None)
       => LET v == locals'[t].keys[1]
              batch == Range(tasks[t].requests)
          IN  /\ \A r \in batch :
                   Cardinality({i \in DOMAIN v : v[i] = reqs[r].key}) = 1
              /\ \A i \in DOMAIN v : \E r \in batch : reqs[r].key = v[i]
              /\ \A i, j \in DOMAIN v : i # j => v[i] # v[j]
              /\ tasks' = tasks
    ]_vars

\* keys() on a batch with keys [a, b, a, b, a] returned [b, a]
C15_Witness ==
  \E t \in Slots :
    /\ tasks[t] = from_requests(<<1, 2, 3, 4, 5>>)
    /\ locals[t].keys = Some(<<"b", "a">>)

\* C16: in handle_task the connection is acquired only once a LoadBatch is in
\* hand, never before or during get_assignment, and a task that ends in
\* NoAssignment has acquired none.
C16_ConnectionAfterBatch ==
  [][\A t \in Slots :
       /\ (locals[t].conn = "none" /\ locals'[t].conn # "none") => tasks[t].st = "batch"
       /\ (tasks[t].st = "pending" /\ tasks'[t] # tasks[t]) => locals[t].conn = "none"
       /\ (tasks[t].st = "pending" /\ tasks'[t] = completion_receipt) => locals'[t].conn = "none"
    ]_vars

\* C17: with MAX_BATCH_SIZE = Some(m) and at least m requests in the local
\* buffer, get_assignment returns the LoadBatch of exactly the local requests,
\* leaves the shared queue as it is and spawns no task.
C17_FullBufferNoDrain ==
  [][\A t \in Slots :
       (/\ tasks[t].st = "pending" /\ tasks'[t] # tasks[t]
        /\ MAX_BATCH_SIZE # None
        /\ Len(tasks[t].requests) >= MAX_BATCH_SIZE[1])
       => /\ tasks'[t] = from_requests(tasks[t].requests)
          /\ queue' = queue
          /\ \A s \in Slots \ {t} : tasks'[s] = tasks[s]
          /\ jobs' = jobs /\ resolved' = resolved /\ cell' = cell
    ]_vars

\* MAX_BATCH_SIZE = Some(1): a spawned task, whose bucket fills its buffer,
\* holds its LoadBatch while requests are waiting in the shared queue
C17_Witness ==
  /\ MAX_BATCH_SIZE = Some(1)
  /\ Len(queue) >= 2
  /\ \E t \in Slots \ Workers : tasks[t].st = "batch" /\ Len(tasks[t].requests) = 1

\* C18: with MAX_BATCH_SIZE unset or positive, no LoadBatch is empty,
\* whichever of get_assignment and apply_partial_results returned it, and
\* every spawned task starts with a non-empty local buffer.
C18_NoEmptyBatch ==
  /\ [](\A t \in Slots :
          /\ tasks[t].st = "batch" => Len(tasks[t].requests) >= 1
          /\ (t \notin Workers /\ tasks[t].st = "pending") => Len(tasks[t].requests) >= 1)
  /\ [][\A t \in Slots :
          (tasks[t].st = "free" /\ tasks'[t].st # "free")
          => tasks'[t].st = "pending" /\ Len(tasks'[t].requests) >= 1
     ]_vars

\* MAX_BATCH_SIZE = Some(2) and three requests: the worker's batch of two is
\* down to one request after apply_partial_results, the spawned task still
\* holds the last bucket of one request
C18_Witness ==
  /\ MAX_BATCH_SIZE = Some(2)
  /\ \E w \in Workers : tasks[w] = from_requests(<<1>>)
  /\ resolved[2] = 1 /\ resolved[1] = 0
  /\ tasks[MaxWorkers + 1] = PendingAssignment(<<3>>)

\* C19: the dedup cache never removes or replaces an entry: a stored reader
\* stays stored, a get_or_create for a key that has an entry returns a clone
\* of that reader and None, so at most one Request is ever produced per key,
\* whatever the result of its load.
C19_CacheNeverEvicts ==
  /\ [](\A k \in Keys :
          /\ Cardinality({r \in DOMAIN reqs : reqs[r].kind = "Watch" /\ reqs[r].key = k}) <= 1
          /\ Cardinality({c \in Callers : ret[c] # None /\ ckey[c] = k}) <= 1
          /\ data[k] # 0 => data[k] \in DOMAIN reqs /\ reqs[data[k]] = [kind |-> "Watch", key |-> k])
  /\ [][/\ \A k \in Keys : data[k] # 0 => data'[k] = data[k]
        /\ \A c \in Callers :
             (/\ pc[c] \in {"idle", "loop", "built"} /\ pc'[c] \in {"got", "waiting"}
              /\ c \notin DOMAIN reqs' \/ reqs'[c].kind = "Watch"
              /\ data[ckey'[c]] # 0)
             => ret'[c] = None /\ rx'[c] = data[ckey'[c]] /\ reqs' = reqs
     ]_vars

\* the load of a key ended in an error; a second caller of that key holds a
\* clone of the same reader, was given no request, and has read the error
C19_Witness ==
  \E k \in Keys : \E c \in Callers :
    /\ data[k] # 0 /\ data[k] # c
    /\ cell[data[k]] = Ready(Err("E1"))
    /\ ckey[c] = k /\ rx[c] = data[k] /\ ret[c] = None
    /\ pc[c] = "done" /\ out[c] = Some(Err("E1"))
    /\ Cardinality({r \in DOMAIN reqs : reqs[r].key = k}) = 1

\* C20: recursive spawning terminates.  A split spawns fewer tasks than it
\* has requests in hand, each with a non-empty bucket; there are never more
\* spawned tasks than requests and a task is always free to be spawned; in
\* the end the shared queue and every local buffer stay empty and every
\* request is in a LoadBatch or resolved.
C20_SpawningTerminates ==
  /\ [](/\ UsedSlots <= Cardinality(DOMAIN reqs)
        /\ \A t \in Slots : tasks[t].st = "pending" => ENABLED get_assignment(t))
  /\ [][\A t \in Slots :
          LET new == {s \in Slots : tasks[s].st = "free" /\ tasks'[s].st # "free"}
          IN  (tasks[t].st = "pending" /\ tasks'[t].st = "batch" /\ new # {})
              => /\ Cardinality(new) < Len(tasks[t].requests) + Len(queue)
                 /\ Cardinality(new) <= Len(queue)
                 /\ \A s \in new : tasks'[s].st = "pending" /\ tasks'[s].requests # <<>>
     ]_vars
  /\ <>[](/\ queue = <<>>
          /\ \A t \in Slots : tasks[t].st = "pending" => tasks[t].requests = <<>>
          /\ \A r \in DOMAIN reqs :
               \/ resolved[r] = 1
               \/ \E t \in Slots : tasks[t].st = "batch" /\ r \in Range(tasks[t].requests))

\* MAX_BATCH_SIZE = Some(1): every one of MaxBurst requests has been resolved,
\* all but one of them by a spawned task of the chain, and nothing is left
C20_Witness ==
  /\ MAX_BATCH_SIZE = Some(1)
  /\ Cardinality(DOMAIN reqs) = MaxBurst
  /\ UsedSlots >= 2
  /\ \A t \in Slots \ Workers : tasks[t].st \in {"free", "receipt"}
  /\ queue = <<>> /\ jobs = {}
  /\ \A r \in DOMAIN reqs : resolved[r] = 1

====
